---- MODULE Spec2Model ----
(***************************************************************************)
(* The ym terminal chat client: the session loop of ym-tui (App::run, the  *)
(* key handlers, send_message_to_gpt) and the completion client of         *)
(* ym-yagpt (GPTClient).                                                    *)
(*                                                                          *)
(* A Rust String is a sequence of characters; every character carries its  *)
(* UTF-8 width, so that String::len (bytes) and chars().count() differ.    *)
(* String literals of the program are single tokens, transliterated.       *)
(***************************************************************************)
EXTENDS Integers, Sequences, FiniteSets, TLC

VARIABLES
    app,        \* the App struct: running, messages, input_buffer, cursor_pos, scroll_offset, gpt_client
    pc,         \* where main is: "cli_action", "overwrite", "id_catalog", "api_key", "App::new", "exited",
                \* and in App::run: "draw", "await", "requesting", "stopped", "panicked", "draw_failed"
    pending,    \* key events typed while the loop is suspended in an exchange, not yet read
    inflight,   \* request payloads handed to the HTTP transport and not yet answered
    response,   \* what the transport has answered and the awaiting call has not yet read
    posts,      \* HTTP POST attempts made since the start of the behaviour
    submits,    \* non-blank Submits handled since the start of the behaviour or the last Clear-history
    handled,    \* what the loop did with the event of this turn: "none" before it, the arm
                \* of handle_key_event that took a key press, "no_key" for anything else
    frame,      \* number of history lines painted by the last terminal.draw (0: nothing painted yet)
    lib_client, \* a GPTClient a caller of the library configures and calls
    call,       \* the last ask_gpt / chat_with_gpt call made on lib_client as it is now
    boot        \* the credentials file on disk and, while cli_action runs, its locals: the
                \* --init flag and the catalog id typed so far

vars == <<app, pc, pending, inflight, response, posts, submits, handled, frame, lib_client, call, boot>>

session_vars == <<app, pending, inflight, response, posts, submits, handled, frame, boot>>

----------------------------------------------------------------------------
(* Bounds of the model. *)

MaxBuf == 2
MaxSubmits == 1
MaxPending == 2

MaxKeyLen == 6

----------------------------------------------------------------------------
(* Characters and strings. *)

CYR_DE == "CYR_DE"      \* U+0434, a Cyrillic letter, two bytes in UTF-8

BufferChars == {" ", CYR_DE}

len_utf8(c) == IF c = CYR_DE THEN 2 ELSE 1

\* char::is_alphanumeric on the characters the model uses.
is_alphanumeric(c) ==
    c \in {"a", "b", "c", "C", "r", "R", "1", CYR_DE, "h", "e", "l", "o", "w", "d"}

is_whitespace(c) == c \in {" ", "\n"}

RECURSIVE str_len(_)
str_len(s) == IF s = <<>> THEN 0 ELSE len_utf8(Head(s)) + str_len(Tail(s))

trim_is_empty(s) == \A i \in 1..Len(s) : is_whitespace(s[i])

\* Vec::insert(idx, c) and Vec::remove(idx), 0-based, on an index the caller has checked.
vec_insert(chars, idx, c) == SubSeq(chars, 1, idx) \o <<c>> \o SubSeq(chars, idx + 1, Len(chars))

vec_remove(chars, idx) == SubSeq(chars, 1, idx) \o SubSeq(chars, idx + 2, Len(chars))

----------------------------------------------------------------------------
(* ym-yagpt: models.rs, errors.rs, client.rs *)

URL_API == <<"https://llm.api.cloud.yandex.net/foundationModels/v1/completion">>

\* An f32, in tenths; NaN is a value of the type.
F32(tenths) == [nan |-> FALSE, tenths |-> tenths]

NaN == [nan |-> TRUE, tenths |-> 0]

DefaultMaxTokens == 2000

GPTOptions_default ==
    [model |-> <<"yandexgpt/latest">>, temperature |-> F32(7), max_tokens |-> DefaultMaxTokens]

AccessData_default == [id_catalog |-> <<>>, api_key |-> <<>>]

GPTClient_new ==
    [access |-> AccessData_default, api_url |-> URL_API, gpt_options |-> GPTOptions_default]

has_data(access) == ~trim_is_empty(access.id_catalog) /\ ~trim_is_empty(access.api_key)

\* load_auth on a credentials file that exists and parses: the fields are taken as they are.
load_auth(client, file) == [client EXCEPT !.access = file]

\* A model URI that leaves the catalog out.
model_uri_bare(client) == <<"gpt://">> \o client.gpt_options.model

\* format!("gpt://{}/{}", id_catalog, model)
model_uri(client) == <<"gpt://">> \o client.access.id_catalog \o <<"/">> \o client.gpt_options.model

build_request(client, messages) ==
    [model_uri |-> model_uri(client),
     completion_options |-> [stream |-> FALSE,
                             temperature |-> client.gpt_options.temperature,
                             max_tokens |-> client.gpt_options.max_tokens],
     messages |-> messages]

\* The roles the other way round: the first line taken for the user's.
role_user_first(i) == IF i % 2 = 0 THEN "user" ELSE "assistant"

\* role[i % 2] with role = ["assistant", "user"], i the 0-based index of enumerate().
role(i) == IF i % 2 = 0 THEN "assistant" ELSE "user"

build_chat_request(client, messages) ==
    build_request(client, [i \in 1..Len(messages) |-> [role |-> role(i - 1), text |-> messages[i]]])

build_ask_request(client, prompt) ==
    build_request(client, <<[role |-> "user", text |-> prompt]>>)

(* GPTError and the two reqwest failures a call can return (errors.rs). *)
Err(kind, code, description) ==
    [ok |-> FALSE, value |-> <<>>, kind |-> kind, code |-> code, description |-> description]

Ok(text) == [ok |-> TRUE, value |-> text, kind |-> "none", code |-> 0, description |-> <<>>]

InvalidCredential == Err("InvalidCredential", 0, <<>>)
EmptyResponse == Err("EmptyResponse", 0, <<>>)
APIError(code, description) == Err("APIError", code, description)
TransportError == Err("reqwest", 0, <<"error sending request">>)
DecodeError == Err("reqwest", 0, <<"error decoding response body">>)

\* impl Display for GPTError; a reqwest::Error prints its own text.
Display(e) ==
    IF e.kind = "EmptyResponse" THEN <<"Poluchen pustoj otvet ot API">>
    ELSE IF e.kind = "InvalidCredential" THEN <<"Dannye dlya avtorizacii nevernye ili ustareli">>
    ELSE IF e.kind = "APIError"
        THEN <<"Nekorrektnyj zapros k API: ", ToString(e.code), ", ">> \o e.description
    ELSE e.description

(* What the transport hands back for one POST: a failure, or a status line   *)
(* with a body. A body is its raw text (when it can be read) together with   *)
(* the JSON document that text denotes.                                      *)
NoJson == [valid |-> FALSE, has_result |-> FALSE, alternatives |-> <<>>]

Json(alternatives) == [valid |-> TRUE, has_result |-> TRUE, alternatives |-> alternatives]

Alt(text) == [has_text |-> TRUE, text |-> text]

Body(readable, raw, json) == [readable |-> readable, raw |-> raw, json |-> json]

NoBody == Body(FALSE, <<>>, NoJson)

Failed == [sent |-> FALSE, status |-> 0, body |-> NoBody]

Http(status, body) == [sent |-> TRUE, status |-> status, body |-> body]

is_success(status) == 200 <= status /\ status <= 299

UNAUTHORIZED == 401

\* response.text().await.unwrap_or_default()
text_or_default(body) == IF body.readable THEN body.raw ELSE <<>>

\* send_request that takes 403 for a credentials failure as well.
send_request_forbidden(resp) ==
    IF ~resp.sent THEN TransportError
    ELSE IF ~is_success(resp.status)
        THEN IF resp.status \in {UNAUTHORIZED, 403}
                THEN InvalidCredential
                ELSE APIError(resp.status, text_or_default(resp.body))
    ELSE Ok(<<>>)

\* send_request after the POST has been handed to the transport.
send_request(resp) ==
    IF ~resp.sent THEN TransportError
    ELSE IF ~is_success(resp.status)
        THEN IF resp.status = UNAUTHORIZED
                THEN InvalidCredential
                ELSE APIError(resp.status, text_or_default(resp.body))
    ELSE Ok(<<>>)

\* response.json::<ApiResponse>(): result.alternatives[*].message.text are all required.
parse_ApiResponse(body) ==
    body.readable /\ body.json.valid /\ body.json.has_result
    /\ \A i \in 1..Len(body.json.alternatives) : body.json.alternatives[i].has_text

\* extract_answer that takes the last alternative.
extract_answer_last(resp) ==
    IF ~parse_ApiResponse(resp.body) THEN DecodeError
    ELSE IF resp.body.json.alternatives = <<>> THEN EmptyResponse
    ELSE Ok(resp.body.json.alternatives[Len(resp.body.json.alternatives)].text)

extract_answer(resp) ==
    IF ~parse_ApiResponse(resp.body) THEN DecodeError
    ELSE IF resp.body.json.alternatives = <<>> THEN EmptyResponse
    ELSE Ok(Head(resp.body.json.alternatives).text)

\* The part of ask_gpt / chat_with_gpt after the request is built: `?` on each step.
complete(resp) ==
    LET sent == send_request(resp)
    IN  IF ~sent.ok THEN sent ELSE extract_answer(resp)

\* The payloads chat_with_gpt hands to the transport, and what it returns for a response.
\* chat_with_gpt that sends the request again after the first attempt.
chat_with_gpt_posts_twice(client, messages) ==
    <<build_chat_request(client, messages), build_chat_request(client, messages)>>

chat_with_gpt_posts(client, messages) == <<build_chat_request(client, messages)>>

chat_with_gpt(client, messages, resp) == complete(resp)

\* The same for ask_gpt, which checks the credentials first.
ask_gpt_posts(client, prompt) ==
    IF ~has_data(client.access) THEN <<>> ELSE <<build_ask_request(client, prompt)>>

ask_gpt(client, prompt, resp) ==
    IF ~has_data(client.access) THEN InvalidCredential ELSE complete(resp)

----------------------------------------------------------------------------
(* ym-tui: app/core.rs, app/messaging.rs *)

Greeting == <<"YandexGPT gotov k dialogu.">>

App_new(access_file) ==
    [running |-> TRUE,
     messages |-> <<Greeting>>,
     input_buffer |-> <<>>,
     cursor_pos |-> 0,
     scroll_offset |-> 0,
     gpt_client |-> load_auth(GPTClient_new, access_file)]

quit(a) == [a EXCEPT !.running = FALSE]

VISIBLE_LINES == 20

U16 == 65536

update_scroll_offset(a) ==
    IF Len(a.messages) > VISIBLE_LINES
        THEN [a EXCEPT !.scroll_offset = (Len(a.messages) - VISIBLE_LINES) % U16]
        ELSE a

\* clear_messages that leaves the scroll offset as it was.
clear_messages_keeps_scroll(a) == [a EXCEPT !.messages = <<Greeting>>]

\* clear_messages without the push of the greeting.
clear_messages_to_empty(a) == [a EXCEPT !.messages = <<>>, !.scroll_offset = 0]

clear_messages(a) == [a EXCEPT !.messages = <<Greeting>>, !.scroll_offset = 0]

\* format!("Vy: {}", app.input_buffer)
user_line(input_buffer) == <<"Vy: ">> \o input_buffer

\* unwrap_or_else(|err| format!("Oshibka otveta modeli: {err}"))
answer_line(result) ==
    IF result.ok THEN result.value ELSE <<"Oshibka otveta modeli: ">> \o Display(result)

\* The user line put in front of the history.
send_message_push_front(a) == [a EXCEPT !.messages = <<user_line(a.input_buffer)>> \o @]

\* The push of the user line (messaging.rs 9).
send_message_push(a) == [a EXCEPT !.messages = Append(@, user_line(a.input_buffer))]

\* send_message_to_gpt that tests the buffer for emptiness without trimming it.
send_message_to_gpt_untrimmed(a) ==
    IF a.input_buffer # <<>>
        THEN LET b == send_message_push(a)
             IN  [app |-> b, sent |-> chat_with_gpt_posts(b.gpt_client, b.messages), awaits |-> TRUE]
        ELSE [app |-> a, sent |-> <<>>, awaits |-> FALSE]

\* send_message_to_gpt up to the .await of the exchange (messaging.rs 7-12): the state it
\* leaves, the payloads handed to the transport, and whether it now awaits the exchange.
send_message_to_gpt(a) ==
    IF ~trim_is_empty(a.input_buffer)
        THEN LET b == send_message_push(a)
             IN  [app |-> b, sent |-> chat_with_gpt_posts(b.gpt_client, b.messages), awaits |-> TRUE]
        ELSE [app |-> a, sent |-> <<>>, awaits |-> FALSE]

\* send_message_to_gpt that returns on a failed exchange (`?` in place of unwrap_or_else).
send_message_finish_propagating(a, result) ==
    IF result.ok
        THEN update_scroll_offset(
                [a EXCEPT !.messages = Append(@, answer_line(result)),
                          !.input_buffer = <<>>,
                          !.cursor_pos = 0])
        ELSE a

\* send_message_to_gpt that stops the session on a failed exchange.
send_message_finish_escalating(a, result) ==
    update_scroll_offset(
        [a EXCEPT !.messages = Append(@, answer_line(result)),
                  !.input_buffer = <<>>,
                  !.cursor_pos = 0,
                  !.running = result.ok])

\* send_message_to_gpt that recomputes the scroll offset before it pushes the answer.
send_message_finish_scroll_first(a, result) ==
    [update_scroll_offset(a) EXCEPT !.messages = Append(@, answer_line(result)),
                                    !.input_buffer = <<>>,
                                    !.cursor_pos = 0]

\* send_message_to_gpt that leaves the buffer and the cursor as they are.
send_message_finish_keeps_buffer(a, result) ==
    update_scroll_offset([a EXCEPT !.messages = Append(@, answer_line(result))])

\* send_message_to_gpt that ends by making a client of its own, with no credentials.
send_message_finish_reloading(a, result) ==
    update_scroll_offset(
        [a EXCEPT !.messages = Append(@, answer_line(result)),
                  !.input_buffer = <<>>,
                  !.cursor_pos = 0,
                  !.gpt_client = GPTClient_new])

\* send_message_to_gpt from the result of the exchange to its end (messaging.rs 13-25).
send_message_finish(a, result) ==
    update_scroll_offset(
        [a EXCEPT !.messages = Append(@, answer_line(result)),
                  !.input_buffer = <<>>,
                  !.cursor_pos = 0])

\* The exchange spawned as a task: the loop goes on to draw and to read events.
pc_after_issue_spawned == "draw"

\* Where the loop is once the request is issued: suspended in the .await until it settles.
pc_after_issue == "requesting"

----------------------------------------------------------------------------
(* ym-tui: app/events.rs *)

Handled(a) == [app |-> a, ok |-> TRUE]

Panicked(a) == [app |-> a, ok |-> FALSE]

insert_char_at_cursor(a, c) ==
    IF a.cursor_pos <= Len(a.input_buffer)
        THEN [a EXCEPT !.input_buffer = vec_insert(@, a.cursor_pos, c),
                       !.cursor_pos = @ + 1]
        ELSE a

\* chars.remove(cursor_pos - 1) panics when cursor_pos - 1 is not an index of chars.
delete_char_before_cursor(a) ==
    IF a.cursor_pos > 0
        THEN IF a.cursor_pos - 1 < Len(a.input_buffer)
                THEN Handled([a EXCEPT !.input_buffer = vec_remove(@, a.cursor_pos - 1),
                                       !.cursor_pos = @ - 1])
                ELSE Panicked(a)
        ELSE Handled(a)

delete_char_at_cursor(a) ==
    IF a.cursor_pos < Len(a.input_buffer)
        THEN [a EXCEPT !.input_buffer = vec_remove(@, a.cursor_pos)]
        ELSE a

\* The while loop of the Ctrl+Left arm; chars[cursor_pos - 1] panics past the end of chars.
RECURSIVE word_left_loop(_)
word_left_loop(a) ==
    IF a.cursor_pos > 0
        THEN IF a.cursor_pos - 1 >= Len(a.input_buffer)
                THEN Panicked(a)
                ELSE IF is_alphanumeric(a.input_buffer[a.cursor_pos])
                        THEN word_left_loop([a EXCEPT !.cursor_pos = @ - 1])
                        ELSE Handled(a)
        ELSE Handled(a)

saturating_sub(n, m) == IF n >= m THEN n - m ELSE 0

word_left(a) == word_left_loop([a EXCEPT !.cursor_pos = saturating_sub(@, 1)])

RECURSIVE word_right_loop(_)
word_right_loop(a) ==
    IF a.cursor_pos < Len(a.input_buffer) /\ is_alphanumeric(a.input_buffer[a.cursor_pos + 1])
        THEN word_right_loop([a EXCEPT !.cursor_pos = @ + 1])
        ELSE a

word_right(a) ==
    LET b == word_right_loop(a)
    IN  IF b.cursor_pos < Len(b.input_buffer) THEN [b EXCEPT !.cursor_pos = @ + 1] ELSE b

cursor_left(a) == IF a.cursor_pos > 0 THEN [a EXCEPT !.cursor_pos = @ - 1] ELSE a

\* app.input_buffer.len() is the length of the String in bytes.
cursor_right(a) ==
    IF a.cursor_pos < str_len(a.input_buffer) THEN [a EXCEPT !.cursor_pos = @ + 1] ELSE a

cursor_home(a) == [a EXCEPT !.cursor_pos = 0]

cursor_end(a) == [a EXCEPT !.cursor_pos = str_len(a.input_buffer)]

(* Terminal events. A key event has its modifiers (a set of flags), its code, *)
(* the character of a Char code, and its kind.                               *)
NONE == {}
CONTROL == {"CONTROL"}
SHIFT == {"SHIFT"}

Key(modifiers, code, ch, kind) ==
    [tag |-> "Ok", type |-> "Key", modifiers |-> modifiers, code |-> code, ch |-> ch, kind |-> kind]

Press(modifiers, code) == Key(modifiers, code, "", "Press")

Char(modifiers, ch) == Key(modifiers, "Char", ch, "Press")

Other(tag, type) ==
    [tag |-> tag, type |-> type, modifiers |-> NONE, code |-> "", ch |-> "", kind |-> ""]

\* A match whose Control arms take every key pressed with Control held.
arm_control_held(key) ==
    IF key.code = "Esc" \/ (CONTROL \subseteq key.modifiers /\ key.code = "Char" /\ key.ch \in {"c", "C"})
        THEN "quit"
    ELSE IF CONTROL \subseteq key.modifiers /\ key.code = "Char" /\ key.ch \in {"r", "R"} THEN "clear"
    ELSE IF key.code = "Enter" THEN "send"
    ELSE IF CONTROL \subseteq key.modifiers /\ key.code = "Left" THEN "word_left"
    ELSE IF CONTROL \subseteq key.modifiers /\ key.code = "Right" THEN "word_right"
    ELSE IF key.code = "Left" THEN "left"
    ELSE IF key.code = "Right" THEN "right"
    ELSE IF key.code = "Home" THEN "home"
    ELSE IF key.code = "End" THEN "end"
    ELSE IF key.code = "Char" THEN "insert"
    ELSE IF key.code = "Backspace" THEN "backspace"
    ELSE IF key.code = "Delete" THEN "delete"
    ELSE "ignored"

\* The arm of the match in handle_key_event that takes the key: the first that matches.
arm(key) ==
    IF key.code = "Esc" \/ (key.modifiers = CONTROL /\ key.code = "Char" /\ key.ch \in {"c", "C"})
        THEN "quit"
    ELSE IF key.modifiers = CONTROL /\ key.code = "Char" /\ key.ch \in {"r", "R"} THEN "clear"
    ELSE IF key.code = "Enter" THEN "send"
    ELSE IF key.modifiers = CONTROL /\ key.code = "Left" THEN "word_left"
    ELSE IF key.modifiers = CONTROL /\ key.code = "Right" THEN "word_right"
    ELSE IF key.code = "Left" THEN "left"
    ELSE IF key.code = "Right" THEN "right"
    ELSE IF key.code = "Home" THEN "home"
    ELSE IF key.code = "End" THEN "end"
    ELSE IF key.code = "Char" THEN "insert"
    ELSE IF key.code = "Backspace" THEN "backspace"
    ELSE IF key.code = "Delete" THEN "delete"
    ELSE "ignored"

\* handle_key_event for every arm but Enter, which suspends (send_message_to_gpt).
handle_key_event(a, key) ==
    LET m == arm(key)
    IN  IF m = "quit" THEN Handled(quit(a))
        ELSE IF m = "clear" THEN Handled(clear_messages(a))
        ELSE IF m = "word_left" THEN word_left(a)
        ELSE IF m = "word_right" THEN Handled(word_right(a))
        ELSE IF m = "left" THEN Handled(cursor_left(a))
        ELSE IF m = "right" THEN Handled(cursor_right(a))
        ELSE IF m = "home" THEN Handled(cursor_home(a))
        ELSE IF m = "end" THEN Handled(cursor_end(a))
        ELSE IF m = "insert" THEN Handled(insert_char_at_cursor(a, key.ch))
        ELSE IF m = "backspace" THEN delete_char_before_cursor(a)
        ELSE IF m = "delete" THEN Handled(delete_char_at_cursor(a))
        ELSE Handled(a)

\* A test that passes on a key event of any kind.
is_key_press_any_kind(item) == item.tag = "Ok" /\ item.type = "Key"

\* handle_crossterm_events passes on only Some(Ok(Event::Key)) of kind Press.
is_key_press(item) == item.tag = "Ok" /\ item.type = "Key" /\ item.kind = "Press"

----------------------------------------------------------------------------
(* ym-yagpt: the configuration calls of GPTClient (client.rs 46-93). A call   *)
(* that panics yields no client.                                             *)

Built(c) == [client |-> c, ok |-> TRUE]

Rejected(c) == [client |-> c, ok |-> FALSE]

set_auth(c, id_catalog, api_key) ==
    Built([c EXCEPT !.access = [id_catalog |-> id_catalog, api_key |-> api_key]])

with_new_url(c, api_url) == Built([c EXCEPT !.api_url = api_url])

with_model(c, model) == Built([c EXCEPT !.gpt_options.model = model])

\* (0.0..=1.0).contains(&temperature): false for NaN.
in_unit_range(t) == ~t.nan /\ 0 <= t.tenths /\ t.tenths <= 10

\* with_temperature without the range check.
with_temperature_unchecked(c, temperature) ==
    Built([c EXCEPT !.gpt_options.temperature = temperature])

with_temperature(c, temperature) ==
    IF ~in_unit_range(temperature)
        THEN Rejected(c)
        ELSE Built([c EXCEPT !.gpt_options.temperature = temperature])

with_max_tokens(c, max_tokens) ==
    IF max_tokens <= 0
        THEN Rejected(c)
        ELSE Built([c EXCEPT !.gpt_options.max_tokens = max_tokens])

----------------------------------------------------------------------------
(* ym-tui: the console helpers (utils/tools.rs). The Cyrillic letters of the *)
(* answers are the tokens "CYR_A", "CYR_EN", "CYR_IE", "CYR_TE" and, in      *)
(* capitals, "CYR_CAP_DE", "CYR_CAP_A", ...                                  *)

\* char::to_lowercase
char_to_lowercase(c) ==
    CASE c = "Y" -> "y" [] c = "E" -> "e" [] c = "S" -> "s" [] c = "N" -> "n" [] c = "O" -> "o"
      [] c = "M" -> "m" [] c = "A" -> "a" [] c = "B" -> "b"
      [] c = "CYR_CAP_DE" -> CYR_DE [] c = "CYR_CAP_A" -> "CYR_A" [] c = "CYR_CAP_EN" -> "CYR_EN"
      [] c = "CYR_CAP_IE" -> "CYR_IE" [] c = "CYR_CAP_TE" -> "CYR_TE"
      [] OTHER -> c

\* str::to_lowercase
to_lowercase(s) == [i \in 1..Len(s) |-> char_to_lowercase(s[i])]

\* str::trim: whitespace is dropped from the front, then from the back.
trim(s) ==
    LET RECURSIVE trim_start(_)
        trim_start(t) == IF t # <<>> /\ is_whitespace(Head(t)) THEN trim_start(Tail(t)) ELSE t
        RECURSIVE trim_end(_)
        trim_end(t) ==
            IF t # <<>> /\ is_whitespace(t[Len(t)]) THEN trim_end(SubSeq(t, 1, Len(t) - 1)) ELSE t
    IN  trim_end(trim_start(s))

\* What a call of yes_or_no comes to: Ok(bool), Err(String), or no return at all.
YesNoOk(b) == [returns |-> TRUE, ok |-> TRUE, value |-> b, error |-> <<>>]

YesNoErr(e) == [returns |-> TRUE, ok |-> FALSE, value |-> FALSE, error |-> e]

\* Recursion without end: the stack overflows and the process is killed.
StackOverflow == [returns |-> FALSE, ok |-> FALSE, value |-> FALSE, error |-> <<>>]

\* The match on answer.trim(), letters as typed.
yes_or_no_arm_cased(answer) ==
    LET a == trim(answer)
    IN  IF a \in {<<"y">>, <<"y", "e", "s">>, <<CYR_DE>>, <<CYR_DE, "CYR_A">>} THEN "yes"
        ELSE IF a \in {<<"n">>, <<"n", "o">>, <<"CYR_EN">>, <<"CYR_EN", "CYR_IE", "CYR_TE">>} THEN "no"
        ELSE IF a = <<>> THEN "empty"
        ELSE "other"

\* The arm of the match that takes answer.trim().to_lowercase().
yes_or_no_arm(answer) ==
    LET a == to_lowercase(trim(answer))
    IN  IF a \in {<<"y">>, <<"y", "e", "s">>, <<CYR_DE>>, <<CYR_DE, "CYR_A">>} THEN "yes"
        ELSE IF a \in {<<"n">>, <<"n", "o">>, <<"CYR_EN">>, <<"CYR_EN", "CYR_IE", "CYR_TE">>} THEN "no"
        ELSE IF a = <<>> THEN "empty"
        ELSE "other"

\* format!("Некорректный ответ. Ожидается 'да', 'нет', получено: {}", answer.trim())
incorrect_answer(answer) ==
    <<"Nekorrektnyj otvet", ". Ozhidaetsya 'da', 'net', polucheno: ">> \o trim(answer)

\* yes_or_no(answer, default). The "" arm calls yes_or_no(default, default): when the default
\* trims to "" as well, that call makes the same call again, without end.
yes_or_no(answer, default) ==
    LET classify(text) ==
            IF yes_or_no_arm(text) = "yes" THEN YesNoOk(TRUE)
            ELSE IF yes_or_no_arm(text) = "no" THEN YesNoOk(FALSE)
            ELSE YesNoErr(incorrect_answer(text))
    IN  IF yes_or_no_arm(answer) # "empty" THEN classify(answer)
        ELSE IF yes_or_no_arm(default) = "empty" THEN StackOverflow
        ELSE classify(default)

----------------------------------------------------------------------------
(* The start of the process: main, cli_action and the credentials file.     *)

\* The credentials file at access_file_path(): absent, present with text that is not the JSON
\* of an AccessData, or present holding an id_catalog and an api_key.
Missing == [exists |-> FALSE, parsed |-> FALSE, access |-> AccessData_default]

Garbage == [exists |-> TRUE, parsed |-> FALSE, access |-> AccessData_default]

Holds(access) == [exists |-> TRUE, parsed |-> TRUE, access |-> access]

Boot(init, file, id_catalog) == [init |-> init, file |-> file, id_catalog |-> id_catalog]

\* No App value exists before App::new has returned.
Unconstructed ==
    [running |-> FALSE, messages |-> <<>>, input_buffer |-> <<>>, cursor_pos |-> 0,
     scroll_offset |-> 0, gpt_client |-> GPTClient_new]

is_app_ready(file) == file.exists

\* AccessData::mask_key: a key of more than VISIBLE_CHARS bytes is cut at byte VISIBLE_CHARS,
\* and slicing a str inside a character panics.
mask_key(key) ==
    LET VISIBLE_CHARS == 5
        RECURSIVE slice_to(_, _)
        slice_to(s, end) ==
            IF end = 0 THEN [ok |-> TRUE, value |-> <<>>]
            ELSE IF len_utf8(Head(s)) > end THEN [ok |-> FALSE, value |-> <<>>]
            ELSE LET rest == slice_to(Tail(s), end - len_utf8(Head(s)))
                 IN  [ok |-> rest.ok, value |-> IF rest.ok THEN <<Head(s)>> \o rest.value ELSE <<>>]
    IN  IF str_len(key) <= VISIBLE_CHARS THEN [ok |-> TRUE, value |-> key]
        ELSE LET shown == slice_to(key, VISIBLE_CHARS)
             IN  [ok |-> shown.ok,
                  value |-> IF shown.ok THEN shown.value \o <<"*", "*", "*", "*", "*">> ELSE <<>>]

\* Display for AccessData: the line written by fmt, unless mask_key panics.
AccessData_fmt(access) ==
    LET id_catalog == mask_key(access.id_catalog)
        api_key == mask_key(access.api_key)
    IN  IF id_catalog.ok /\ api_key.ok
            THEN [ok |-> TRUE,
                  value |-> <<"AccessData | id-catalog: ">> \o id_catalog.value
                            \o <<", api-key: ">> \o api_key.value \o <<"\n">>]
            ELSE [ok |-> FALSE, value |-> <<>>]

\* A validator that accepts every input.
validator_accepting(input) == TRUE

\* validator_id_catalog, validator_api_key
validator(input) == input # <<>>

\* fs::write creates or truncates the file and then writes the JSON: the file is written,
\* or could not be opened and is as it was, or was opened and is left without the whole text.
save_it(access, file, outcome) ==
    IF outcome = "written" THEN Holds(access)
    ELSE IF outcome = "not_opened" THEN file
    ELSE Garbage

\* A load that falls back to empty credentials.
load_it_or_default(file) ==
    [ok |-> TRUE, access |-> IF file.exists /\ file.parsed THEN file.access ELSE AccessData_default]

\* AccessData::load_it: read_to_string and serde_json::from_str, each of which panics on failure.
load_it(file) == [ok |-> file.exists /\ file.parsed, access |-> file.access]

----------------------------------------------------------------------------
(* The inputs of a session. *)

ValidAccess == [id_catalog |-> <<"b">>, api_key |-> <<"k">>]

SessionKeys ==
    {Char(NONE, c) : c \in BufferChars}
    \cup {Press(NONE, code) : code \in {"Backspace", "Delete", "Left", "Right", "Home", "End",
                                         "Enter", "Esc"}}
    \cup {Press(CONTROL, "Left"), Press(CONTROL, "Right"), Char(CONTROL, "c"), Char(CONTROL, "r"),
          Press(NONE, "Tab")}

\* What event_stream.next() can yield: a key press, another event, an error, the end.
SessionItems ==
    SessionKeys
    \cup {Other("None", ""), Other("Err", ""), Other("Ok", "Resize"), Other("Ok", "Mouse"),
          Key(NONE, "Enter", "", "Release"), Key(NONE, "Enter", "", "Repeat")}

\* Keys the user types while an exchange is in flight.
TypeAheadKeys == {Char(NONE, CYR_DE), Press(NONE, "Enter"), Press(NONE, "Esc")}

OkBody(alternatives) == Body(TRUE, <<"{result}">>, Json(alternatives))

Oops == Body(TRUE, <<"oops">>, NoJson)

\* What the transport can hand back to the session: no response at all, an answer, a
\* refusal.
SessionResponses ==
    {Failed,
     Http(200, OkBody(<<Alt(<<"ok">>)>>)),
     Http(500, Oops)}

NoCall == [fn |-> "none", arg |-> <<>>, response |-> Failed, posted |-> <<>>, result |-> Ok(<<>>)]

----------------------------------------------------------------------------
(* App::run: draw, then handle one event, while running. *)

\* The session as App::run finds it, n non-blank Submits after the greeting.
InitSession(a, n) ==
    /\ app = a
    /\ pc = "draw"
    /\ pending = <<>>
    /\ inflight = <<>>
    /\ response = <<>>
    /\ posts = 0
    /\ submits = n
    /\ handled = "none"
    /\ frame = 0
    /\ lib_client = GPTClient_new
    /\ call = NoCall
    /\ boot = Boot(FALSE, Holds(ValidAccess), <<>>)

Init == InitSession(App_new(ValidAccess), 0)

\* A loop that does not test the flag.
loop_test_forever(a) == "draw"

\* The loop test `while self.running` after an event is handled.
loop_test(a) == IF a.running THEN "draw" ELSE "stopped"

\* The loop goes on to wait for an event with nothing painted.
DrawSkipped ==
    /\ pc = "draw"
    /\ handled' = "none"
    /\ pc' = "await"
    /\ UNCHANGED <<app, pending, inflight, response, posts, submits, frame, lib_client, call, boot>>

\* terminal.draw(...) paints the state.
Draw ==
    /\ pc = "draw"
    /\ frame' = Len(app.messages)
    /\ handled' = "none"
    /\ pc' = "await"
    /\ UNCHANGED <<app, pending, inflight, response, posts, submits, lib_client, call, boot>>

\* terminal.draw(...)? fails: run returns the error.
DrawError ==
    /\ pc = "draw"
    /\ pc' = "draw_failed"
    /\ handled' = "none"
    /\ UNCHANGED <<app, pending, inflight, response, posts, submits, frame, lib_client, call, boot>>

\* An event stream that forgets what was typed during an exchange.
Deliverable_fresh == SessionItems

\* event_stream.next(): what was typed during an exchange comes first, in order.

Deliverable == IF pending # <<>> THEN {Head(pending)} ELSE SessionItems

Taken == IF pending # <<>> THEN Tail(pending) ELSE pending

\* Anything but a key press: handle_crossterm_events returns Ok(()) with the state as it was.
NoKeyPress ==
    /\ pc = "await"
    /\ \E item \in Deliverable : ~is_key_press(item)
    /\ pending' = Taken
    /\ handled' = "no_key"
    /\ pc' = loop_test(app)
    /\ UNCHANGED <<app, inflight, response, posts, submits, frame, lib_client, call, boot>>

\* The stream yields a key press taken by arm m of handle_key_event (every arm but Enter).
KeyArm(m) ==
    /\ \E item \in Deliverable :
        /\ is_key_press(item)
        /\ arm(item) = m
        /\ m = "insert" => Len(app.input_buffer) < MaxBuf
        /\ LET r == handle_key_event(app, item)
           IN  /\ app' = r.app
               /\ pc' = IF r.ok THEN loop_test(r.app) ELSE "panicked"
    /\ pending' = Taken
    /\ handled' = m
    /\ submits' = IF m = "clear" THEN 0 ELSE submits
    /\ UNCHANGED <<inflight, response, posts, frame, lib_client, call, boot>>

Quit == pc = "await" /\ KeyArm("quit")

ClearHistory == pc = "await" /\ KeyArm("clear")

WordLeft == pc = "await" /\ KeyArm("word_left")

WordRight == pc = "await" /\ KeyArm("word_right")

Left == pc = "await" /\ KeyArm("left")

Right == pc = "await" /\ KeyArm("right")

Home == pc = "await" /\ KeyArm("home")

End == pc = "await" /\ KeyArm("end")

InsertChar == pc = "await" /\ KeyArm("insert")

Backspace == pc = "await" /\ KeyArm("backspace")

Delete == pc = "await" /\ KeyArm("delete")

\* A key press no arm names (a function key, Tab): the `_ => {}` arm.
IgnoredKey == pc = "await" /\ KeyArm("ignored")

\* Enter: send_message_to_gpt up to its .await, or to its end when the buffer is blank.
SubmitArm(awaits) ==
    /\ \E item \in Deliverable : is_key_press(item) /\ arm(item) = "send"
    /\ LET r == send_message_to_gpt(app)
       IN  /\ r.awaits = awaits
           /\ app' = r.app
           /\ inflight' = inflight \o r.sent
           /\ posts' = posts + Len(r.sent)
           /\ submits' = IF r.awaits THEN submits + 1 ELSE submits
           /\ pc' = IF r.awaits THEN pc_after_issue ELSE loop_test(r.app)
    /\ pending' = Taken
    /\ handled' = "send"
    /\ UNCHANGED <<response, frame, lib_client, call, boot>>

SubmitBlank == pc = "await" /\ SubmitArm(FALSE)

\* The exchanges that have settled.
settled == posts - Len(inflight) - Len(response)

\* A behaviour is followed until MaxSubmits exchanges have settled.
SubmitIssue == pc = "await" /\ settled < MaxSubmits /\ SubmitArm(TRUE)

\* The transport answers the request in flight, or fails.
TransportAnswers ==
    /\ inflight # <<>>
    /\ response = <<>>
    /\ \E resp \in SessionResponses : response' = <<resp>>
    /\ inflight' = Tail(inflight)
    /\ UNCHANGED <<app, pc, pending, posts, submits, handled, frame, lib_client, call, boot>>

\* The exchange settles: chat_with_gpt returns and send_message_to_gpt runs to its end.
ExchangeSettles ==
    /\ pc = "requesting"
    /\ response # <<>>
    /\ app' = send_message_finish(app, chat_with_gpt(app.gpt_client, app.messages, Head(response)))
    /\ response' = Tail(response)
    /\ pc' = loop_test(app')
    /\ UNCHANGED <<pending, inflight, posts, submits, handled, frame, lib_client, call, boot>>

\* The user types while the loop is suspended in the exchange: the terminal keeps the key.
KeyTypedAhead ==
    /\ pc = "requesting"
    /\ Len(pending) < MaxPending
    /\ \E key \in TypeAheadKeys : pending' = Append(pending, key)
    /\ UNCHANGED <<app, pc, inflight, response, posts, submits, handled, frame, lib_client, call, boot>>

Next ==
    \/ Draw
    \/ DrawError
    \/ NoKeyPress
    \/ Quit
    \/ ClearHistory
    \/ WordLeft
    \/ WordRight
    \/ Left
    \/ Right
    \/ Home
    \/ End
    \/ InsertChar
    \/ Backspace
    \/ Delete
    \/ IgnoredKey
    \/ SubmitBlank
    \/ SubmitIssue
    \/ TransportAnswers
    \/ ExchangeSettles
    \/ KeyTypedAhead

Spec == Init /\ [][Next]_vars

(* The session with its scheduling: the transport answers every request and  *)
(* the awaiting call is resumed (every exchange settles), App::run goes on   *)
(* from the loop test to terminal.draw, and a queued Esc is read by          *)
(* event_stream.next().                                                      *)
SpecLive ==
    /\ Spec
    /\ WF_vars(TransportAnswers)
    /\ WF_vars(ExchangeSettles)
    /\ WF_vars(Draw)
    /\ WF_vars(Quit)

(* A session that already holds a long history: the state reached from      *)
(* App::new by PriorExchanges exchanges, each a typed letter, Enter and an   *)
(* answer, replayed through the handlers above.                              *)
PriorExchanges == {10}

one_exchange(a) ==
    LET typed == insert_char_at_cursor(a, CYR_DE)
        sent == send_message_to_gpt(typed).app
    IN  send_message_finish(sent,
            chat_with_gpt(sent.gpt_client, sent.messages, Http(200, OkBody(<<Alt(<<"ok">>)>>))))

RECURSIVE replay(_, _)
replay(a, n) == IF n = 0 THEN a ELSE replay(one_exchange(a), n - 1)

InitLong == \E n \in PriorExchanges : InitSession(replay(App_new(ValidAccess), n), n)

SpecLong == InitLong /\ [][Next]_vars

(* A session whose history has outgrown what a u16 scroll offset can hold:   *)
(* the state HugeExchanges exchanges like those above lead to, written out.  *)
HugeExchanges == {32777}

long_history(n) ==
    [i \in 1..(2 * n + 1) |->
        IF i = 1 THEN Greeting ELSE IF i % 2 = 0 THEN user_line(<<CYR_DE>>) ELSE <<"ok">>]

after_exchanges(n) ==
    update_scroll_offset([App_new(ValidAccess) EXCEPT !.messages = long_history(n)])

InitHuge == \E n \in HugeExchanges : InitSession(after_exchanges(n), n)

SpecHuge == InitHuge /\ [][Next]_vars

----------------------------------------------------------------------------
(* A program that uses the library: it configures a GPTClient with the       *)
(* builder calls and calls ask_gpt and chat_with_gpt on it.                   *)

Histories ==
    {<<>>,
     <<<<"b">>>>,
     <<<<"a">>, <<"b">>, <<"c">>>>,
     <<<<"b">>, <<"b">>, <<"a">>, <<>>>>}

Statuses == {199, 200, 299, 300, 401, 403, 500}

Bodies ==
    {NoBody,
     Oops,
     OkBody(<<>>),
     OkBody(<<Alt(<<"ok">>)>>),
     OkBody(<<Alt(<<"ok">>), Alt(<<"second">>)>>),
     OkBody(<<Alt(<<"ok">>), [has_text |-> FALSE, text |-> <<>>]>>),
     Body(TRUE, <<"{}">>, [valid |-> TRUE, has_result |-> FALSE, alternatives |-> <<>>])}

\* The bodies that come with a status that is not a success: unreadable, text, an answer.
ErrorBodies == {NoBody, Oops, OkBody(<<Alt(<<"ok">>)>>)}

ClientResponses ==
    {Failed}
    \cup {Http(status, body) : status \in {st \in Statuses : is_success(st)}, body \in Bodies}
    \cup {Http(status, body) : status \in {st \in Statuses : ~is_success(st)}, body \in ErrorBodies}

InitClient ==
    /\ app = App_new(ValidAccess)
    /\ pc = "lib"
    /\ pending = <<>>
    /\ inflight = <<>>
    /\ response = <<>>
    /\ posts = 0
    /\ submits = 0
    /\ handled = "none"
    /\ frame = 0
    /\ lib_client = GPTClient_new
    /\ call = NoCall
    /\ boot = Boot(FALSE, Holds(ValidAccess), <<>>)

\* A builder call returns the new client, or panics.
Configure(built) ==
    /\ lib_client' = built.client
    /\ pc' = IF built.ok THEN "lib" ELSE "panicked"
    /\ call' = NoCall
    /\ UNCHANGED session_vars

SetAuth ==
    /\ pc = "lib"
    /\ \E id_catalog \in {<<>>, <<" ">>, <<"b">>}, api_key \in {<<>>, <<"k">>} :
        Configure(set_auth(lib_client, id_catalog, api_key))

WithNewUrl ==
    /\ pc = "lib"
    /\ \E api_url \in {URL_API, <<"http://localhost/">>} : Configure(with_new_url(lib_client, api_url))

\* MODEL_YANDEXGPT_LATEST, MODEL_YANDEXGPT_PRO (lib.rs)
WithModel ==
    /\ pc = "lib"
    /\ \E model \in {<<"yandexgpt/latest">>, <<"yandexgpt-pro">>} : Configure(with_model(lib_client, model))

WithTemperature ==
    /\ pc = "lib"
    /\ \E t \in {F32(0 - 1), F32(0), F32(10), F32(11), NaN} : Configure(with_temperature(lib_client, t))

WithMaxTokens ==
    /\ pc = "lib"
    /\ \E n \in {0 - 1, 0, 1} : Configure(with_max_tokens(lib_client, n))

AskGpt ==
    /\ pc = "lib"
    /\ \E prompt \in {<<"hi">>}, resp \in ClientResponses :
        call' = [fn |-> "ask_gpt", arg |-> prompt, response |-> resp,
                 posted |-> ask_gpt_posts(lib_client, prompt),
                 result |-> ask_gpt(lib_client, prompt, resp)]
    /\ UNCHANGED <<session_vars, pc, lib_client>>

ChatWithGpt ==
    /\ pc = "lib"
    /\ \E messages \in Histories, resp \in ClientResponses :
        call' = [fn |-> "chat_with_gpt", arg |-> messages, response |-> resp,
                 posted |-> chat_with_gpt_posts(lib_client, messages),
                 result |-> chat_with_gpt(lib_client, messages, resp)]
    /\ UNCHANGED <<session_vars, pc, lib_client>>

NextClient ==
    \/ SetAuth
    \/ WithNewUrl
    \/ WithModel
    \/ WithTemperature
    \/ WithMaxTokens
    \/ AskGpt
    \/ ChatWithGpt

SpecClient == InitClient /\ [][NextClient]_vars

(* The session and the program that uses the library, side by side. *)
InitAll == Init \/ InitClient

NextAll == Next \/ NextClient

SpecAll == InitAll /\ [][NextAll]_vars

----------------------------------------------------------------------------
(* yes_or_no on the answers and defaults a console user and a caller give it. *)

Answers ==
    {<<>>, <<" ">>, <<"\n">>, <<" ", "\n">>,
     <<"y">>, <<"Y">>, <<"y", "e", "s">>, <<"Y", "E", "S">>, <<" ", "Y", "e", "s", "\n">>,
     <<CYR_DE>>, <<"CYR_CAP_DE">>, <<CYR_DE, "CYR_A">>, <<"CYR_CAP_DE", "CYR_CAP_A", "\n">>,
     <<"n">>, <<"N">>, <<"n", "o">>, <<"N", "O", "\n">>, <<" ", "n", "O">>,
     <<"CYR_EN">>, <<"CYR_CAP_EN">>, <<"CYR_EN", "CYR_IE", "CYR_TE">>, <<"CYR_CAP_EN", "CYR_CAP_IE", "CYR_CAP_TE">>,
     <<"m", "a", "y", "b", "e">>, <<"y", " ", "e", "s">>, <<"y", "e">>, <<"n", "o", "n">>,
     <<CYR_DE, "CYR_EN">>, <<"M", "\n">>}

Defaults ==
    {<<"y", "e", "s">>, <<"n", "o">>, <<"N", "O">>, <<"CYR_CAP_DE", "CYR_A">>, <<" ", "n", " ">>,
     <<"i", "n", "v", "a", "l", "i", "d">>, <<>>, <<" ">>}

InitTools ==
    /\ app = App_new(ValidAccess)
    /\ pc = "tools"
    /\ pending = <<>>
    /\ inflight = <<>>
    /\ response = <<>>
    /\ posts = 0
    /\ submits = 0
    /\ handled = "none"
    /\ frame = 0
    /\ lib_client = GPTClient_new
    /\ call = NoCall
    /\ boot = Boot(FALSE, Holds(ValidAccess), <<>>)

YesOrNo ==
    /\ pc = "tools"
    /\ \E answer \in Answers, default \in Defaults :
         call' = [fn |-> "yes_or_no", arg |-> <<answer, default>>, response |-> Failed,
                  posted |-> <<>>, result |-> yes_or_no(answer, default)]
    /\ UNCHANGED <<session_vars, pc, lib_client>>

SpecTools == InitTools /\ [][YesOrNo]_vars

----------------------------------------------------------------------------
(* handle_crossterm_events on its own: one item of the event stream, handled *)
(* to its end (an Enter with its exchange, whose answer is an input).        *)

\* The session when the key arrives: a typed buffer with the cursor somewhere in it.
InitKeys ==
    /\ \E n \in 0..MaxBuf :
         \E buf \in [1..n -> {"a", " "}], cur \in 0..n :
            app = [App_new(ValidAccess) EXCEPT !.input_buffer = buf, !.cursor_pos = cur]
    /\ pc = "tools"
    /\ pending = <<>>
    /\ inflight = <<>>
    /\ response = <<>>
    /\ posts = 0
    /\ submits = 0
    /\ handled = "none"
    /\ frame = 0
    /\ lib_client = GPTClient_new
    /\ call = NoCall
    /\ boot = Boot(FALSE, Holds(ValidAccess), <<>>)

\* handle_crossterm_events(app).await for one item of the event stream, a key with any
\* modifiers and of any kind among them; call records the item.
Dispatch ==
    /\ pc = "tools"
    /\ \E item \in {Key(modifiers, code[1], code[2], kind) :
                        modifiers \in SUBSET (CONTROL \cup SHIFT),
                        code \in {<<"Esc", "">>, <<"Enter", "">>, <<"Left", "">>, <<"Right", "">>,
                                  <<"Backspace", "">>, <<"Tab", "">>, <<"Char", "c">>,
                                  <<"Char", "C">>, <<"Char", "r">>, <<"Char", "a">>},
                        kind \in {"Press", "Release", "Repeat"}}
                   \cup {Other("None", ""), Other("Err", ""), Other("Ok", "Resize"),
                         Other("Ok", "Mouse"), Other("Ok", "FocusGained"), Other("Ok", "Paste")} :
        /\ IF ~is_key_press(item)
               THEN /\ app' = app
                    /\ posts' = posts
                    /\ submits' = submits
                    /\ handled' = "no_key"
                    /\ pc' = "dispatched"
           ELSE IF arm(item) = "send"
               THEN LET r == send_message_to_gpt(app)
                    IN  /\ \E resp \in SessionResponses :
                             app' = IF r.awaits
                                        THEN send_message_finish(r.app,
                                                 chat_with_gpt(r.app.gpt_client, r.app.messages, resp))
                                        ELSE r.app
                        /\ posts' = posts + Len(r.sent)
                        /\ submits' = IF r.awaits THEN submits + 1 ELSE submits
                        /\ handled' = "send"
                        /\ pc' = "dispatched"
               ELSE LET r == handle_key_event(app, item)
                    IN  /\ app' = r.app
                        /\ posts' = posts
                        /\ submits' = IF arm(item) = "clear" THEN 0 ELSE submits
                        /\ handled' = arm(item)
                        /\ pc' = IF r.ok THEN "dispatched" ELSE "panicked"
        /\ call' = [fn |-> "handle_crossterm_events", arg |-> item, response |-> Failed,
                    posted |-> <<>>, result |-> Ok(<<>>)]
    /\ UNCHANGED <<pending, inflight, response, frame, lib_client, boot>>

SpecKeys == InitKeys /\ [][Dispatch]_vars

----------------------------------------------------------------------------
(* The display of credentials: format!("{}", access_data) for credentials of *)
(* up to MaxKeyLen characters each.                                          *)

\* to_string() of an AccessData; call records the credentials and the outcome.
Mask ==
    /\ pc = "tools"
    /\ \E n \in 0..MaxKeyLen, m \in 0..MaxKeyLen :
         \E id_catalog \in [1..n -> {"a", CYR_DE}], api_key \in [1..m -> {"a", CYR_DE}] :
            call' = [fn |-> "fmt", arg |-> <<id_catalog, api_key>>, response |-> Failed,
                     posted |-> <<>>,
                     result |-> AccessData_fmt([id_catalog |-> id_catalog, api_key |-> api_key])]
    /\ pc' = "shown"
    /\ UNCHANGED <<session_vars, lib_client>>

SpecMask == InitTools /\ [][Mask]_vars

----------------------------------------------------------------------------
(* main: cli_action, then App::new().run(terminal). Each blocking read of a  *)
(* console line is a step of its own.                                        *)

BootFiles == {Missing, Garbage, Holds(AccessData_default), Holds(ValidAccess)}

InitBoot ==
    /\ app = Unconstructed
    /\ pc = "cli_action"
    /\ pending = <<>>
    /\ inflight = <<>>
    /\ response = <<>>
    /\ posts = 0
    /\ submits = 0
    /\ handled = "none"
    /\ frame = 0
    /\ lib_client = GPTClient_new
    /\ call = NoCall
    /\ \E init \in BOOLEAN, file \in BootFiles : boot = Boot(init, file, <<>>)

\* cli_action up to its first console read or its return; init_user_data asks about the
\* overwrite only when the file exists.
CliAction ==
    /\ pc = "cli_action"
    /\ pc' = IF ~boot.init /\ ~is_app_ready(boot.file) THEN "exited"
             ELSE IF ~boot.init THEN "App::new"
             ELSE IF boot.file.exists THEN "overwrite"
             ELSE "id_catalog"
    /\ boot' = IF pc' \in {"overwrite", "id_catalog"} THEN boot ELSE Boot(FALSE, boot.file, <<>>)
    /\ UNCHANGED <<app, pending, inflight, response, posts, submits, handled, frame, lib_client, call>>

\* ask_user(.., "no") reads one line: it asks again on an error of yes_or_no, returns its
\* verdict otherwise; init_user_data exits on false.
AnswerOverwrite ==
    /\ pc = "overwrite"
    /\ \E answer \in {<<"\n">>, <<CYR_DE, "\n">>, <<"n", "\n">>, <<"x", "\n">>} :
         LET r == yes_or_no(answer, <<"n", "o">>)
         IN  /\ pc' = IF ~r.ok THEN "overwrite" ELSE IF r.value THEN "id_catalog" ELSE "exited"
             /\ boot' = IF pc' = "exited" THEN Boot(FALSE, boot.file, <<>>) ELSE boot
    /\ UNCHANGED <<app, pending, inflight, response, posts, submits, handled, frame, lib_client, call>>

\* loop_input_user("ID-Catalog: ", validator_id_catalog) reads one line.
EnterIdCatalog ==
    /\ pc = "id_catalog"
    /\ \E input \in {<<"\n">>, <<" ", "b", "\n">>} :
         LET clean_input == trim(input)
         IN  IF ~validator(clean_input)
                THEN UNCHANGED <<pc, boot>>
                ELSE pc' = "api_key" /\ boot' = [boot EXCEPT !.id_catalog = clean_input]
    /\ UNCHANGED <<app, pending, inflight, response, posts, submits, handled, frame, lib_client, call>>

\* loop_input_user("API-Key: ", validator_api_key) reads one line; with a valid key
\* init_user_data saves the data and cli_action returns, whatever save_it and is_app_ready say.
EnterApiKey ==
    /\ pc = "api_key"
    /\ \E input \in {<<" ", "\n">>, <<"k", "\n">>}, outcome \in {"written", "not_opened", "truncated"} :
         LET clean_input == trim(input)
             access == [id_catalog |-> boot.id_catalog, api_key |-> clean_input]
         IN  IF ~validator(clean_input)
                THEN UNCHANGED <<pc, boot>>
                ELSE /\ pc' = "App::new"
                     /\ boot' = [boot EXCEPT !.file = save_it(access, boot.file, outcome)]
    /\ UNCHANGED <<app, pending, inflight, response, posts, submits, handled, frame, lib_client, call>>

\* App::new().run(terminal) up to the loop test: load_auth panics inside App::new, or the App
\* is built with what the file holds.
AppNew ==
    /\ pc = "App::new"
    /\ IF load_it(boot.file).ok
          THEN app' = App_new(load_it(boot.file).access) /\ pc' = "draw"
          ELSE app' = app /\ pc' = "panicked"
    /\ boot' = Boot(FALSE, boot.file, <<>>)
    /\ UNCHANGED <<pending, inflight, response, posts, submits, handled, frame, lib_client, call>>

NextBoot ==
    \/ CliAction
    \/ AnswerOverwrite
    \/ EnterIdCatalog
    \/ EnterApiKey
    \/ AppNew
    \/ Next

SpecBoot == InitBoot /\ [][NextBoot]_vars

----------------------------------------------------------------------------
(* Properties of the session loop. *)

IsPrefix(s, t) == Len(s) <= Len(t) /\ SubSeq(t, 1, Len(s)) = s

Last(s) == s[Len(s)]

\* C1: in every reachable state the cursor is within the buffer, 0 <= cursor <= number of
\* characters of the buffer, and no handler has indexed the buffer outside its bounds.
C1_CursorWithinBuffer ==
    /\ 0 <= app.cursor_pos
    /\ app.cursor_pos <= Len(app.input_buffer)
    /\ pc # "panicked"

\* C2: at most one request is in flight; while the loop is in Requesting no POST is made,
\* no key event is taken from the terminal, and the state changes only by the exchange
\* settling.
C2_SingleFlight ==
    [][/\ Len(inflight') + Len(response') <= 1
       /\ pc = "requesting" =>
            /\ posts' = posts
            /\ IsPrefix(pending, pending')
            /\ handled' = handled
            /\ app' # app => (pc' # "requesting" /\ inflight' = <<>> /\ response' = <<>>)]_vars

C2_Witness ==
    /\ pc = "requesting"
    /\ inflight # <<>>
    /\ pending # <<>>
    /\ Head(pending).code = "Enter"

\* The text that describes the failure of a response, by the class of the response.
C3_Describes(resp) ==
    IF ~resp.sent THEN "error sending request"
    ELSE IF resp.status = 401 THEN "Dannye dlya avtorizacii nevernye ili ustareli"
    ELSE IF resp.status < 200 \/ resp.status > 299 THEN "Nekorrektnyj zapros k API: "
    ELSE IF ~resp.body.json.valid THEN "error decoding response body"
    ELSE IF resp.body.json.alternatives = <<>> THEN "Poluchen pustoj otvet ot API"
    ELSE "none"

C5_SubmitOrder ==
    [][/\ (pc = "await" /\ pc' = "requesting") =>
            /\ ~(\A i \in 1..Len(app.input_buffer) : app.input_buffer[i] = " ")
            /\ app'.messages = Append(app.messages, <<"Vy: ">> \o app.input_buffer)
            /\ app'.input_buffer = app.input_buffer
            /\ app'.cursor_pos = app.cursor_pos
            /\ app'.scroll_offset = app.scroll_offset
            /\ Len(inflight') = 1
            /\ Len(inflight'[1].messages) = Len(app'.messages)
            /\ \A i \in 1..Len(app'.messages) : inflight'[1].messages[i].text = app'.messages[i]
       /\ (pc = "requesting" /\ pc' = "requesting") => app' = app
       /\ (pc = "requesting" /\ pc' # "requesting") =>
            /\ inflight = <<>> /\ response # <<>>
            /\ Len(app'.messages) = Len(app.messages) + 1
            /\ IsPrefix(app.messages, app'.messages)
            /\ app'.input_buffer = <<>>
            /\ app'.cursor_pos = 0
            /\ app'.scroll_offset =
                    IF Len(app'.messages) > 20 THEN Len(app'.messages) - 20 ELSE app.scroll_offset
            /\ pc' = "draw"]_vars

C5_Witness ==
    /\ pc = "draw"
    /\ handled = "send"
    /\ posts = 1
    /\ Len(app.messages) = 23
    /\ app.scroll_offset = 3
    /\ app.input_buffer = <<>>

\* C6: with no Clear-history since the start, after N non-blank Submits the history has
\* 2N + 1 lines (2N while the N-th exchange is still out).
C6_HistoryLength ==
    Len(app.messages) = (IF pc = "requesting" THEN 2 * submits ELSE 2 * submits + 1)

C6_Witness ==
    /\ pc = "await"
    /\ submits = 11
    /\ Len(app.messages) = 23
    /\ app.input_buffer # <<>>

\* C7: a Submit on an empty or whitespace-only buffer changes nothing and issues no request.
C7_BlankSubmit ==
    [][(pc = "await" /\ handled' = "send"
            /\ \A i \in 1..Len(app.input_buffer) : app.input_buffer[i] = " ") =>
        /\ app' = app
        /\ inflight' = inflight
        /\ response' = response
        /\ posts' = posts
        /\ pc' = "draw"]_vars

C7_Witness ==
    /\ pc = "draw"
    /\ handled = "send"
    /\ app.input_buffer = <<" ">>
    /\ Len(app.messages) = 3

\* C8: Clear-history leaves exactly the greeting in the history and 0 as the scroll offset,
\* and changes neither the buffer, the cursor nor the running flag.
C8_ClearHistory ==
    [][(pc = "await" /\ handled' = "clear") =>
        /\ app'.messages = <<Greeting>>
        /\ app'.scroll_offset = 0
        /\ app'.input_buffer = app.input_buffer
        /\ app'.cursor_pos = app.cursor_pos
        /\ app'.running = app.running
        /\ pc' = "draw"]_vars

C8_Witness ==
    /\ pc = "draw"
    /\ handled = "clear"
    /\ frame > 20
    /\ app.messages = <<Greeting>>
    /\ app.scroll_offset = 0
    /\ app.input_buffer # <<>>

\* C9: a Quit stops the loop and changes neither history, buffer, cursor nor scroll offset;
\* once stopped nothing is painted, no event is handled and no request is issued.
C9_Quit ==
    [][/\ (pc = "await" /\ handled' = "quit") =>
            /\ pc' = "stopped"
            /\ ~app'.running
            /\ app'.messages = app.messages
            /\ app'.input_buffer = app.input_buffer
            /\ app'.cursor_pos = app.cursor_pos
            /\ app'.scroll_offset = app.scroll_offset
            /\ posts' = posts
            /\ inflight' = inflight
       /\ pc = "stopped" => UNCHANGED vars]_vars

C9_Witness ==
    /\ pc = "stopped"
    /\ handled = "quit"
    /\ ~app.running
    /\ app.input_buffer # <<>>
    /\ Len(app.messages) > 1

\* C14: a printable-character key event on buffer b with cursor k gives the buffer
\* b[0..k] + c + b[k..] and the cursor k + 1: the character is never dropped and the buffer
\* grows by exactly one character.
C14_InsertAtCursor ==
    [][(pc = "await" /\ handled' = "insert") =>
        /\ Len(app'.input_buffer) = Len(app.input_buffer) + 1
        /\ app'.cursor_pos = app.cursor_pos + 1
        /\ app.cursor_pos <= Len(app.input_buffer)
        /\ \E c \in BufferChars :
                app'.input_buffer =
                    SubSeq(app.input_buffer, 1, app.cursor_pos) \o <<c>>
                        \o SubSeq(app.input_buffer, app.cursor_pos + 1, Len(app.input_buffer))]_vars

\* C15: over any run of printable-character, Backspace, Delete and cursor-movement events
\* the number of characters of the buffer is the number of printable-character events minus
\* the Backspaces handled with cursor > 0 minus the Deletes handled with cursor < length;
\* stated event by event: each such event changes the length by exactly its term of the sum.
C15_BufferLength ==
    [][pc = "await" =>
        LET length == Len(app.input_buffer)
            length_after == Len(app'.input_buffer)
        IN  /\ handled' = "insert" => length_after = length + 1
            /\ handled' = "backspace" =>
                    length_after = (IF app.cursor_pos > 0 THEN length - 1 ELSE length)
            /\ handled' = "delete" =>
                    length_after = (IF app.cursor_pos < length THEN length - 1 ELSE length)
            /\ handled' \in {"left", "right", "home", "end", "word_left", "word_right"} =>
                    length_after = length]_vars

\* C16: Backspace with cursor k > 0 removes the character at index k - 1 and sets the cursor
\* to k - 1, with k = 0 it changes nothing; Delete with k < length removes the character at
\* index k and keeps the cursor, with k = length it changes nothing; neither changes the
\* history or the scroll offset.
C16_BackspaceDelete ==
    [][(pc = "await" /\ handled' \in {"backspace", "delete"}) =>
        LET b == app.input_buffer
            k == app.cursor_pos
        IN  /\ pc' # "panicked"
            /\ app'.messages = app.messages
            /\ app'.scroll_offset = app.scroll_offset
            /\ (handled' = "backspace" /\ k = 0) => app' = app
            /\ (handled' = "backspace" /\ k > 0) =>
                    /\ k <= Len(b)
                    /\ app'.input_buffer = SubSeq(b, 1, k - 1) \o SubSeq(b, k + 1, Len(b))
                    /\ app'.cursor_pos = k - 1
            /\ (handled' = "delete" /\ k < Len(b)) =>
                    /\ app'.input_buffer = SubSeq(b, 1, k) \o SubSeq(b, k + 2, Len(b))
                    /\ app'.cursor_pos = k
            /\ (handled' = "delete" /\ k = Len(b)) => app' = app]_vars

\* C17: with length the number of characters of the buffer, multi-byte ones included, Left
\* gives the cursor max(k - 1, 0), Right min(k + 1, length), Home 0 and End length; none of
\* the four changes the buffer, the history or the scroll offset.
C17_CursorKeys ==
    [][(pc = "await" /\ handled' \in {"left", "right", "home", "end"}) =>
        LET k == app.cursor_pos
            length == Len(app.input_buffer)
        IN  /\ app'.input_buffer = app.input_buffer
            /\ app'.messages = app.messages
            /\ app'.scroll_offset = app.scroll_offset
            /\ handled' = "left" => app'.cursor_pos = (IF k - 1 > 0 THEN k - 1 ELSE 0)
            /\ handled' = "right" => app'.cursor_pos = (IF k + 1 < length THEN k + 1 ELSE length)
            /\ handled' = "home" => app'.cursor_pos = 0
            /\ handled' = "end" => app'.cursor_pos = length]_vars

HelloWorld == <<"h", "e", "l", "l", "o", " ", "w", "o", "r", "l", "d">>

HelloAt(k) == [App_new(ValidAccess) EXCEPT !.input_buffer = HelloWorld, !.cursor_pos = k]

C18_Max(S) == CHOOSE x \in S : \A y \in S : y <= x

C18_Min(S) == CHOOSE x \in S : \A y \in S : x <= y

\* One step left, not below 0, then left over the alphanumeric characters before the cursor.
C18_WordLeft(b, k) ==
    LET from == IF k > 0 THEN k - 1 ELSE 0
    IN  C18_Max({j \in 0..from : j = 0 \/ ~is_alphanumeric(b[j])})

\* Right over the alphanumeric characters at the cursor, then one more step below length.
C18_WordRight(b, k) ==
    LET over == C18_Min({j \in k..Len(b) : j = Len(b) \/ ~is_alphanumeric(b[j + 1])})
    IN  IF over < Len(b) THEN over + 1 ELSE over

\* C18: word-left moves the cursor one step left and on to the start of the alphanumeric run
\* before it, word-right moves it past the alphanumeric run at it and one more step; both
\* leave the buffer unchanged and the cursor within [0, length]; on "hello world" word-left
\* from 5 gives 0 and word-right from 0 gives 6.
C18_WordMoves ==
    [][/\ (pc = "await" /\ handled' \in {"word_left", "word_right"}) =>
            LET b == app.input_buffer
                k == app.cursor_pos
            IN  /\ pc' # "panicked"
                /\ app'.input_buffer = b
                /\ 0 <= app'.cursor_pos /\ app'.cursor_pos <= Len(b)
                /\ (handled' = "word_left" /\ k <= Len(b)) => app'.cursor_pos = C18_WordLeft(b, k)
                /\ (handled' = "word_right" /\ k <= Len(b)) => app'.cursor_pos = C18_WordRight(b, k)
       /\ word_left(HelloAt(5)) = Handled(HelloAt(0))
       /\ word_right(HelloAt(0)) = HelloAt(6)]_vars

\* C19: whenever the loop awaits an event the scroll offset is max(0, length(history) - 20):
\* 0 while the history has at most 20 lines, otherwise the number of lines before the last 20.
C19_ScrollOffset ==
    pc = "await" =>
        app.scroll_offset = (IF Len(app.messages) > 20 THEN Len(app.messages) - 20 ELSE 0)

\* C21: each non-blank Submit makes exactly one HTTP POST attempt, whatever its outcome: the
\* exchange ends with the first response or failure and nothing is sent again; no other
\* event (editing, cursor movement, blank Submit, Clear-history, Quit) and no other step
\* makes a request.
C21_NoRetries ==
    [][LET submit == pc = "await" /\ handled' = "send" /\ ~trim_is_empty(app.input_buffer)
       IN  /\ submit => (posts' = posts + 1 /\ Len(inflight') = Len(inflight) + 1)
           /\ ~submit => (posts' = posts /\ Len(inflight') <= Len(inflight))
           /\ (pc = "requesting" /\ response # <<>> /\ response' = <<>>) =>
                (pc' = "draw" /\ inflight' = <<>> /\ Len(app'.messages) = Len(app.messages) + 1)]_vars

C21_Witness ==
    /\ pc = "draw"
    /\ handled = "send"
    /\ posts = 1
    /\ inflight = <<>>
    /\ response = <<>>
    /\ Last(app.messages) = <<"Oshibka otveta modeli: ", "error sending request">>

\* C22: a key typed while an exchange is in flight is not delivered before the exchange has
\* settled, its line is appended and the buffer is cleared; the keys are then handled in the
\* order they came: a typed character goes into the cleared buffer, it does not reach the
\* user line of the exchange and the clear does not erase it.
C22_TypedAhead ==
    [][/\ pc = "requesting" =>
            /\ IsPrefix(pending, pending')
            /\ handled' = handled
            /\ IsPrefix(app.messages, app'.messages)
            /\ app' # app =>
                /\ pending' = pending
                /\ Len(app'.messages) = Len(app.messages) + 1
                /\ app'.input_buffer = <<>>
                /\ app'.cursor_pos = 0
       /\ (pc = "await" /\ pending # <<>>) =>
            LET key == Head(pending)
                b == app.input_buffer
                k == app.cursor_pos
            IN  /\ pending' = Tail(pending)
                /\ key.code = "Enter" => handled' = "send"
                /\ key.code = "Esc" => handled' = "quit"
                /\ key.code = "Char" =>
                    /\ handled' = "insert"
                    /\ k <= Len(b)
                    /\ app'.input_buffer = SubSeq(b, 1, k) \o <<key.ch>> \o SubSeq(b, k + 1, Len(b))
                    /\ app'.messages = app.messages]_vars

C22_Witness ==
    /\ pc = "draw"
    /\ handled = "insert"
    /\ app.input_buffer = <<CYR_DE>>
    /\ Len(app.messages) = 3
    /\ pending = <<Press(NONE, "Enter")>>

\* C26: the history is append-only and never reordered: every step other than the handling
\* of Clear-history leaves the history it found as a prefix of the history it leaves, and
\* Clear-history, the only step that removes entries, leaves the greeting alone.
C26_AppendOnly ==
    [][LET clear == pc = "await" /\ handled' = "clear"
       IN  /\ ~clear => IsPrefix(app.messages, app'.messages)
           /\ clear => app'.messages = <<Greeting>>]_vars

C26_Witness ==
    /\ pc = "draw"
    /\ handled = "insert"
    /\ posts = 1
    /\ Len(app.messages) = 3
    /\ app.input_buffer = <<" ">>
    /\ pending = <<>>

\* C27: the exchange changes no session state: while a request or its response is out,
\* history, buffer, cursor, scroll offset and credentials stay as they were when the user
\* line was appended; the payload carries the history of that moment, line by line, and the
\* catalog of the loaded credentials; no step of the session changes the client, its
\* credentials or the credentials file.
C27_ExchangeFrame ==
    [][/\ ((inflight # <<>> \/ response # <<>>) /\ (inflight' # <<>> \/ response' # <<>>)) =>
            app' = app
       /\ (pc = "await" /\ inflight' # inflight) =>
            /\ Len(inflight') = 1
            /\ Len(inflight'[1].messages) = Len(app'.messages)
            /\ \A i \in 1..Len(app'.messages) : inflight'[1].messages[i].text = app'.messages[i]
            /\ inflight'[1].model_uri =
                    <<"gpt://">> \o boot.file.access.id_catalog \o <<"/", "yandexgpt/latest">>
       /\ app'.gpt_client = app.gpt_client
       /\ app'.gpt_client.access = boot.file.access
       /\ boot' = boot]_vars

C27_Witness ==
    /\ pc = "requesting"
    /\ inflight = <<>>
    /\ response # <<>>
    /\ Len(pending) = 2
    /\ Len(app.messages) = 2
    /\ app.input_buffer = <<CYR_DE, " ">>
    /\ app.cursor_pos = 1

\* C30: rendering and mutation alternate: every wait for an event is entered by one draw of
\* the history as it is, every handled event leads back to the loop test before the next
\* wait, nothing is drawn while an exchange is out, and every frame drawn shows a history of
\* odd length.
C30_DrawThenWait ==
    [][/\ pc' = "await" => (pc = "draw" /\ app' = app /\ frame' = Len(app.messages))
       /\ pc = "await" => pc' # "await"
       /\ pc # "draw" => frame' = frame
       /\ (inflight # <<>> \/ response # <<>>) => (pc = "requesting" /\ frame' = frame)
       /\ frame' # 0 => frame' % 2 = 1]_vars

C30_Witness ==
    /\ pc = "await"
    /\ frame = 3
    /\ Len(app.messages) = 3
    /\ posts = 1
    /\ app.input_buffer = <<>>

\* A line of the history written by the user.
C29_UserLine(line) == line # <<>> /\ line[1] = "Vy: "

\* C29: index parity coincides with authorship: entry 0 of the history is the greeting, the
\* entries at odd indices are user lines and those at even indices above 0 are not; a request
\* carries a history of even length, at least 2, whose last line is the user line just
\* submitted with role "user", and every line of it has the role of its author. This is so
\* after Clear-history as well.
C29_ParityIsAuthorship ==
    /\ app.messages # <<>>
    /\ app.messages[1] = Greeting
    /\ \A i \in 2..Len(app.messages) : C29_UserLine(app.messages[i]) <=> (i - 1) % 2 = 1
    /\ pc = "requesting" => Len(app.messages) % 2 = 0
    /\ \A k \in 1..Len(inflight) :
         LET m == inflight[k].messages
         IN  /\ Len(m) >= 2 /\ Len(m) % 2 = 0
             /\ m[Len(m)].role = "user"
             /\ m[Len(m)].text = app.messages[Len(app.messages)]
             /\ \A i \in 1..Len(m) :
                    m[i].role = (IF C29_UserLine(m[i].text) THEN "user" ELSE "assistant")

C29_Witness ==
    /\ pc = "requesting"
    /\ Len(inflight) = 1
    /\ Len(app.messages) = 2
    /\ app.scroll_offset = 0
    /\ inflight[1].messages[2] = [role |-> "user", text |-> <<"Vy: ", CYR_DE>>]

\* C31: when every issued exchange settles, a non-blank Submit is followed by the loop
\* waiting for an event with an empty buffer, and when the first key typed while the request
\* was out is a Quit the loop goes on from there to stop (in both cases unless terminal.draw
\* fails, which ends App::run with the error); until the exchange has settled the loop stays
\* in the request and takes no event from the queue, a typed Quit included, and a Quit at the
\* head of the queue stays there until the loop stops on it.
C31_Stopped == pc = "stopped" \/ pc = "draw_failed"

C31_QuitTyped == pending # <<>> /\ Head(pending).code = "Esc"

C32_OnlyQuitStops ==
    [][/\ (app.running /\ ~app'.running) => (pc = "await" /\ handled' = "quit")
       /\ (pc = "await" /\ handled' # "quit") => (pc' \in {"draw", "requesting"} /\ app'.running)
       /\ (pc = "await" /\ handled' = "no_key") => (app' = app /\ pc' = "draw" /\ posts' = posts)
       /\ pc = "requesting" => (pc' \in {"requesting", "draw"} /\ app'.running)]_vars

\* C35: the scroll offset stored when a Submit has settled is length(history) - 20, without
\* wrap-around, for every history of more than 20 lines, those of 65556 lines and more
\* included.
C35_NoWrapAround ==
    [][(pc = "requesting" /\ pc' # "requesting" /\ Len(app'.messages) > 20) =>
            app'.scroll_offset = Len(app'.messages) - 20]_vars

----------------------------------------------------------------------------
(* Properties of the completion client. *)

\* C4: every ask_gpt and every chat_with_gpt call on a client whose catalog id or API key is
\* empty fails with InvalidCredential and makes no HTTP request.
C4_NoRequestWithoutCredentials ==
    (call.fn # "none" /\ (lib_client.access.id_catalog = <<>> \/ lib_client.access.api_key = <<>>)) =>
        /\ ~call.result.ok
        /\ call.result.kind = "InvalidCredential"
        /\ call.posted = <<>>

\* C10: a response that is not a success is classified by its status alone: 401 is
\* InvalidCredential whatever the body; any other status outside 200..299 is APIError with
\* that status as code and the raw body text as description (empty when the body cannot be
\* read); a transport failure is an error that is none of InvalidCredential, EmptyResponse
\* and APIError.
C10_FailureClasses ==
    (call.fn # "none" /\ call.posted # <<>>) =>
        LET r == call.response
            e == call.result
        IN  /\ ~r.sent =>
                (~e.ok /\ e.kind \notin {"InvalidCredential", "EmptyResponse", "APIError"})
            /\ (r.sent /\ r.status = 401) =>
                (~e.ok /\ e.kind = "InvalidCredential")
            /\ (r.sent /\ r.status # 401 /\ (r.status < 200 \/ r.status > 299)) =>
                /\ ~e.ok
                /\ e.kind = "APIError"
                /\ e.code = r.status
                /\ e.description = (IF r.body.readable THEN r.body.raw ELSE <<>>)

C10_Witness ==
    /\ call.fn = "chat_with_gpt"
    /\ call.response = Http(500, Oops)
    /\ call.result.kind = "APIError"
    /\ call.result.code = 500
    /\ call.result.description = <<"oops">>

\* A body that is the JSON text of an ApiResponse: {result: {alternatives: [{message: {text}}]}}.
C11_Parses(body) ==
    /\ body.readable
    /\ body.json.valid
    /\ body.json.has_result
    /\ \A i \in 1..Len(body.json.alternatives) : body.json.alternatives[i].has_text

\* C11: for a 2xx response whose body parses, the call returns the text of the first
\* alternative whatever the later ones hold, and EmptyResponse exactly when there is no
\* alternative; a 2xx body that does not parse gives a parse error, never EmptyResponse.
C11_FirstAlternative ==
    (call.fn # "none" /\ call.posted # <<>> /\ call.response.sent
            /\ 200 <= call.response.status /\ call.response.status <= 299) =>
        LET body == call.response.body
            alternatives == body.json.alternatives
        IN  /\ (C11_Parses(body) /\ alternatives # <<>>) =>
                (call.result.ok /\ call.result.value = alternatives[1].text)
            /\ (C11_Parses(body) /\ alternatives = <<>>) =>
                (~call.result.ok /\ call.result.kind = "EmptyResponse")
            /\ ~C11_Parses(body) =>
                /\ ~call.result.ok
                /\ call.result.kind = "reqwest"
                /\ call.result.description = <<"error decoding response body">>
            /\ call.result.kind = "EmptyResponse" => (C11_Parses(body) /\ alternatives = <<>>)

C11_Witness ==
    /\ call.fn = "chat_with_gpt"
    /\ call.response = Http(299, OkBody(<<Alt(<<"ok">>), Alt(<<"second">>)>>))
    /\ call.result = Ok(<<"ok">>)

\* C12: chat_with_gpt builds, for a history of any length n >= 0, a payload of exactly n
\* messages with the texts of the history in order, the message at 0-based index i with
\* role "assistant" when i is even and "user" when i is odd; the build never fails, and the
\* call leaves the history and the client as they were.
C12_HistoryRoles ==
    [][(call'.fn = "chat_with_gpt" /\ call' # call) =>
        /\ lib_client' = lib_client
        /\ call'.arg \in Histories
        /\ Len(call'.posted) = 1
        /\ LET history == call'.arg
               msgs == call'.posted[1].messages
           IN  /\ Len(msgs) = Len(history)
               /\ \A n \in 1..Len(history) :
                    /\ msgs[n].text = history[n]
                    /\ (n - 1) % 2 = 0 => msgs[n].role = "assistant"
                    /\ (n - 1) % 2 = 1 => msgs[n].role = "user"]_vars

C12_Witness ==
    /\ call.fn = "chat_with_gpt"
    /\ call.arg = <<<<"a">>, <<"b">>, <<"c">>>>
    /\ call.posted[1].messages = <<[role |-> "assistant", text |-> <<"a">>],
                                   [role |-> "user", text |-> <<"b">>],
                                   [role |-> "assistant", text |-> <<"c">>]>>

\* C13: every payload handed to the transport, by ask_gpt and by chat_with_gpt, has stream
\* false, the temperature and max_tokens of the client's options and the model URI
\* gpt://{id_catalog}/{model}; the payload of ask_gpt holds exactly one message, with role
\* "user" and the prompt as text.
C13_Payload ==
    \A n \in 1..Len(call.posted) :
        LET payload == call.posted[n]
        IN  /\ payload.completion_options.stream = FALSE
            /\ payload.completion_options.temperature = lib_client.gpt_options.temperature
            /\ payload.completion_options.max_tokens = lib_client.gpt_options.max_tokens
            /\ payload.model_uri =
                    <<"gpt://">> \o lib_client.access.id_catalog \o <<"/">> \o lib_client.gpt_options.model
            /\ call.fn = "ask_gpt" => payload.messages = <<[role |-> "user", text |-> call.arg]>>

C13_Witness ==
    /\ call.fn = "ask_gpt"
    /\ lib_client.gpt_options = [model |-> <<"yandexgpt-pro">>, temperature |-> F32(10), max_tokens |-> 1]
    /\ call.posted =
            <<[model_uri |-> <<"gpt://", "b", "/", "yandexgpt-pro">>,
               completion_options |-> [stream |-> FALSE, temperature |-> F32(10), max_tokens |-> 1],
               messages |-> <<[role |-> "user", text |-> <<"hi">>]>>]>>

\* Generation options within their ranges: 0 <= temperature <= 1, max_tokens > 0.
C20_Valid(gpt_options) ==
    /\ ~gpt_options.temperature.nan
    /\ 0 <= gpt_options.temperature.tenths
    /\ gpt_options.temperature.tenths <= 10
    /\ gpt_options.max_tokens > 0

\* C20: every client the configuration calls lead to has 0 <= temperature <= 1 and
\* max_tokens > 0; a call with a value out of range is rejected when it is made and yields
\* no client with that value; no key event and no exchange of a session changes the
\* generation options of its client.
C20_OptionsInRange ==
    [][/\ C20_Valid(lib_client.gpt_options)
       /\ C20_Valid(lib_client'.gpt_options)
       /\ (pc = "lib" /\ pc' = "panicked") => lib_client' = lib_client
       /\ (pc = "lib" /\ lib_client'.gpt_options # lib_client.gpt_options) => pc' = "lib"
       /\ C20_Valid(app.gpt_client.gpt_options)
       /\ app'.gpt_client = app.gpt_client]_vars

C20_Witness ==
    /\ pc = "panicked"
    /\ lib_client.gpt_options = [model |-> <<"yandexgpt-pro">>, temperature |-> F32(0), max_tokens |-> 1]

----------------------------------------------------------------------------
(* Properties of the console helpers. *)

C24_Yes == {<<"y">>, <<"y", "e", "s">>, <<CYR_DE>>, <<CYR_DE, "CYR_A">>}

C24_No == {<<"n">>, <<"n", "o">>, <<"CYR_EN">>, <<"CYR_EN", "CYR_IE", "CYR_TE">>}

\* s without its leading and trailing whitespace, said without recursion.
C24_Trimmed(s) ==
    LET S == {i \in 1..Len(s) : s[i] \notin {" ", "\n"}}
    IN  IF S = {} THEN <<>>
        ELSE SubSeq(s, CHOOSE i \in S : \A j \in S : i <= j, CHOOSE i \in S : \A j \in S : j <= i)

\* Two texts are the same up to the case of their letters.
C24_SameLetters(s, t) ==
    /\ Len(s) = Len(t)
    /\ \A i \in 1..Len(s) :
         \/ s[i] = t[i]
         \/ \E pair \in {<<"Y", "y">>, <<"E", "e">>, <<"S", "s">>, <<"N", "n">>, <<"O", "o">>,
                         <<"CYR_CAP_DE", CYR_DE>>, <<"CYR_CAP_A", "CYR_A">>, <<"CYR_CAP_EN", "CYR_EN">>,
                         <<"CYR_CAP_IE", "CYR_IE">>, <<"CYR_CAP_TE", "CYR_TE">>} :
                {s[i], t[i]} = {pair[1], pair[2]}

\* C24: yes_or_no classifies the answer after trimming whitespace and ignoring case: y, yes,
\* the Cyrillic d and da give Ok(true), n, no, the Cyrillic n and net give Ok(false), and any
\* other answer that is not blank gives an error whose message contains "Nekorrektnyj otvet";
\* none of the three depends on the default.
C24_Classifies ==
    call.fn = "yes_or_no" =>
        LET answer == C24_Trimmed(call.arg[1])
            r == call.result
        IN  /\ (\E w \in C24_Yes : C24_SameLetters(answer, w)) => r = YesNoOk(TRUE)
            /\ (\E w \in C24_No : C24_SameLetters(answer, w)) => r = YesNoOk(FALSE)
            /\ (answer # <<>> /\ \A w \in C24_Yes \cup C24_No : ~C24_SameLetters(answer, w)) =>
                 /\ r.returns /\ ~r.ok
                 /\ \E i \in 1..Len(r.error) : r.error[i] = "Nekorrektnyj otvet"
            /\ answer # <<>> =>
                 \A default \in Defaults : yes_or_no(call.arg[1], default).ok = r.ok
                                           /\ yes_or_no(call.arg[1], default).value = r.value
                                           /\ yes_or_no(call.arg[1], default).returns

C24_Witness ==
    /\ call.fn = "yes_or_no"
    /\ call.arg = <<(<<"CYR_CAP_DE", "CYR_CAP_A", "\n">>), (<<"n", "o">>)>>
    /\ call.result = YesNoOk(TRUE)

\* C25: for an answer that is empty or all whitespace yes_or_no returns what the default
\* stands for: Ok(true) for a yes-default, Ok(false) for a no-default, and an error when the
\* default is not a recognized answer.
C25_EmptyAnswer ==
    (call.fn = "yes_or_no" /\ C24_Trimmed(call.arg[1]) = <<>>) =>
        LET default == C24_Trimmed(call.arg[2])
            r == call.result
        IN  /\ (\E w \in C24_Yes : C24_SameLetters(default, w)) => r = YesNoOk(TRUE)
            /\ (\E w \in C24_No : C24_SameLetters(default, w)) => r = YesNoOk(FALSE)
            /\ (\A w \in C24_Yes \cup C24_No : ~C24_SameLetters(default, w)) =>
                 r.returns /\ ~r.ok

\* C36: yes_or_no terminates, with Ok or with Err, for every answer and every default, an
\* empty or all-whitespace default with an empty answer included.
C36_Terminates ==
    call.fn = "yes_or_no" =>
        /\ call.result.returns
        /\ call.result \in {YesNoOk(TRUE), YesNoOk(FALSE)} \/ ~call.result.ok

----------------------------------------------------------------------------
(* Properties of the start of the process. *)

\* C23: whenever App::new is reached after cli_action has returned, with or without --init,
\* the credentials file is present and holds a catalog id and an API key that are both
\* non-empty.
C23_ValidCredentials ==
    pc = "App::new" =>
        /\ boot.file.exists
        /\ boot.file.parsed
        /\ boot.file.access.id_catalog # <<>>
        /\ boot.file.access.api_key # <<>>

\* C28: when the credentials file is missing or cannot be parsed as App::new loads it, the
\* load ends the process: no App is constructed, and nothing is drawn or requested then or
\* ever after.
C28_LoadFailureFatal ==
    [][/\ (pc = "App::new" /\ ~(boot.file.exists /\ boot.file.parsed)) =>
            /\ pc' = "panicked"
            /\ app' = Unconstructed
            /\ frame' = 0 /\ posts' = 0 /\ inflight' = <<>>
       /\ (pc = "panicked" /\ app = Unconstructed) => UNCHANGED vars]_vars

C28_Witness ==
    /\ pc = "panicked"
    /\ app = Unconstructed
    /\ boot.file = Garbage
    /\ frame = 0 /\ posts = 0

----------------------------------------------------------------------------
(* Properties of the key dispatch. *)

\* C33: key dispatch is deterministic and takes the first matching rule: Esc with any
\* modifiers quits; Ctrl+C quits and Ctrl+R clears the history only when Control is the only
\* modifier held; Enter with any modifiers submits; Left and Right move by a word only when
\* Control is the only modifier and by one step otherwise; every other character key, with
\* any modifiers, is inserted into the buffer at the cursor.
C33_Dispatch ==
    [][LET key == call'.arg
           buf == app.input_buffer
           cur == app.cursor_pos
           only_control == key.modifiers = {"CONTROL"}
           quits == handled' = "quit" /\ ~app'.running /\ app'.input_buffer = buf
           inserted == /\ handled' = "insert"
                       /\ app'.running
                       /\ app'.messages = app.messages
                       /\ app'.input_buffer =
                              SubSeq(buf, 1, cur) \o <<key.ch>> \o SubSeq(buf, cur + 1, Len(buf))
                       /\ app'.cursor_pos = cur + 1
       IN  (key.type = "Key" /\ key.kind = "Press") =>
             /\ key.code = "Esc" => quits
             /\ (key.code = "Char" /\ key.ch \in {"c", "C"}) => IF only_control THEN quits ELSE inserted
             /\ (key.code = "Char" /\ key.ch \in {"r", "R"}) =>
                    IF only_control
                        THEN handled' = "clear" /\ Len(app'.messages) = 1 /\ app'.running
                        ELSE inserted
             /\ key.code = "Enter" =>
                    /\ handled' = "send"
                    /\ app'.running
                    /\ posts' = IF \A i \in 1..Len(buf) : buf[i] = " " THEN posts ELSE posts + 1
             /\ key.code = "Left" =>
                    /\ handled' = IF only_control THEN "word_left" ELSE "left"
                    /\ ~only_control => app'.cursor_pos = IF cur > 0 THEN cur - 1 ELSE 0
                    /\ app'.input_buffer = buf
             /\ key.code = "Right" =>
                    /\ handled' = IF only_control THEN "word_right" ELSE "right"
                    /\ ~only_control => app'.cursor_pos = IF cur < Len(buf) THEN cur + 1 ELSE cur
                    /\ app'.input_buffer = buf
             /\ (key.code = "Char" /\ key.ch \notin {"c", "C", "r", "R"}) => inserted]_vars

C33_Witness ==
    /\ call.fn = "handle_crossterm_events"
    /\ call.arg = Key({"CONTROL", "SHIFT"}, "Char", "C", "Press")
    /\ handled = "insert"
    /\ app.input_buffer = <<"a", "C", " ">>
    /\ app.cursor_pos = 2

\* C34: only key events of kind Press change the session: a key release or repeat, a mouse
\* or resize event, any other terminal event, an error or the end of the stream leave the
\* history, the buffer, the cursor, the scroll offset and the running flag as they were and
\* issue no request.
C34_OnlyPress ==
    [][LET item == call'.arg
       IN  ~(item.tag = "Ok" /\ item.type = "Key" /\ item.kind = "Press") =>
             /\ app'.messages = app.messages
             /\ app'.input_buffer = app.input_buffer
             /\ app'.cursor_pos = app.cursor_pos
             /\ app'.scroll_offset = app.scroll_offset
             /\ app'.running = app.running
             /\ posts' = posts
             /\ inflight' = inflight]_vars

C34_Witness ==
    /\ pc = "dispatched"
    /\ call.arg = Key(NONE, "Enter", "", "Repeat")
    /\ app.input_buffer = <<"a">>
    /\ Len(app.messages) = 1
    /\ posts = 0

----------------------------------------------------------------------------
(* Properties of the --init flow. *)

\* C37: the credentials written by the --init flow are valid: each prompt is left only with
\* a trimmed value that is not empty (an empty or all-whitespace input is asked again), and
\* the file init_user_data has written holds that catalog id and that API key, both
\* non-empty after trimming, so that a client loading them has data.
C37_InitWritesValid ==
    [][LET clean(s) == s # <<>> /\ ~is_whitespace(s[1]) /\ ~is_whitespace(s[Len(s)])
       IN  /\ (pc = "id_catalog" /\ pc' # pc) =>
                 (pc' = "api_key" /\ clean(boot'.id_catalog) /\ boot'.file = boot.file)
           /\ (pc = "api_key" /\ pc' # pc) =>
                 /\ pc' = "App::new"
                 /\ boot'.id_catalog = boot.id_catalog
                 /\ \/ boot'.file \in {boot.file, Garbage}
                    \/ /\ boot'.file.exists /\ boot'.file.parsed
                       /\ boot'.file.access.id_catalog = boot.id_catalog
                       /\ clean(boot'.file.access.id_catalog)
                       /\ clean(boot'.file.access.api_key)
                       /\ has_data(boot'.file.access)
                       /\ has_data(load_auth(GPTClient_new, load_it(boot'.file).access).access)]_vars

C37_Witness ==
    /\ pc = "App::new"
    /\ boot.init
    /\ boot.id_catalog = <<"b">>
    /\ boot.file = Holds([id_catalog |-> <<"b">>, api_key |-> <<"k">>])

----------------------------------------------------------------------------
(* Properties of the display of credentials. *)

\* C38: the masked display depends only on the first 5 characters of each field and on
\* whether the field is longer than 5 characters: a field of more than 5 characters is shown
\* as its first 5 characters followed by "*****", a field of at most 5 characters is shown as
\* it is, so two keys longer than 5 that share their first 5 characters are shown alike.
C38_MaskedDisplay ==
    call.fn = "fmt" =>
        LET shown(key) == IF Len(key) > 5
                              THEN SubSeq(key, 1, 5) \o <<"*", "*", "*", "*", "*">>
                              ELSE key
        IN  /\ call.result.ok
            /\ call.result.value = <<"AccessData | id-catalog: ">> \o shown(call.arg[1])
                                   \o <<", api-key: ">> \o shown(call.arg[2]) \o <<"\n">>

====
